---- MODULE Spec2Model ----
(***************************************************************************)
(* Model of the camera / barcode-scanner screen of                         *)
(* with-barcode-scanner/App.tsx.                                           *)
(*                                                                         *)
(* `state' holds the component's hook state with every queued update       *)
(* applied.  `rendered' is the snapshot of that state the last render      *)
(* saw: it is what the closures of the handlers read (recording,           *)
(* isBarcodeScanning, scanningPaused) and what decides which controls      *)
(* exist.  `screen' is the element the last render returned.               *)
(*                                                                         *)
(* When an update is rendered depends on the React root the app is built   *)
(* with, so each step takes any of the outcomes a build can produce:       *)
(*  - the render of a press handler takes the handler's updates, and       *)
(*    either takes the updates queued before it too or leaves them to a    *)
(*    later render;                                                        *)
(*  - the updates of a native barcode event are rendered at once, with or  *)
(*    without the updates queued before them, or are queued;               *)
(*  - an update made from the continuation of an await, from an effect or  *)
(*    from the permission hook is either rendered at once or queued for a  *)
(*    later Render step.                                                   *)
(***************************************************************************)
EXTENDS Integers, Sequences, FiniteSets, TLC

\* ---------------------------------------------------------------- bounds
\* outstanding takePictureAsync / recordAsync promises
MaxPending == 2
\* outstanding requestPermission calls
MaxPermPending == 2
\* length of the barcode payloads the label is computed for
MaxDataLen == 4

\* ---------------------------------------------------------------- values
Uris == {"file:a", "file:b"}
UriValues == Uris \cup {"null", "undefined"}

BarcodeTypes == {"ean13", "qr"}
BarcodePayloads == {<<"9", "7", "8", "1">>, <<"1", "2", "3", "4">>}
Barcodes == [type : BarcodeTypes, data : BarcodePayloads]
\* useState<BarcodeScanningResult | null>(null)
NoBarcode == [type |-> "", data |-> <<>>]

\* JavaScript truthiness of the uri in `uri ? ... : ...'
Truthy(u) == u \notin {"null", "undefined", ""}

\* state, rendered, screen, effectPending, photoPending and recordPending
\* are the program; the others record what the last step was:
\*   lastVideoReq  the last call made on the camera by recordVideo
\*   lastOp, pre   the last step and the state it started from
\*   lastScan      the payload of the barcode event of the last step
\*   lastPhoto     the value takePictureAsync resolved with in the last step
\*   afterDismiss  "waiting" from scanAgain until a barcode event reaches the
\*                 mounted camera, then "rescanned"; "none" otherwise
\*   display       the Type and Data texts of the barcode result as rendered
\*   permPending   the requestPermission calls that are not answered yet
VARIABLES state, rendered, screen, display, effectPending, permPending, photoPending,
          recordPending, lastVideoReq, lastOp, pre, lastScan, lastPhoto,
          afterDismiss

vars == <<state, rendered, screen, display, effectPending, permPending, photoPending,
          recordPending, lastVideoReq, lastOp, pre, lastScan, lastPhoto,
          afterDismiss>>

\* the useState / useCameraPermissions initial values
InitialState ==
    [permission |-> "null",
     uri |-> "null",
     mode |-> "picture",
     facing |-> "back",
     recording |-> FALSE,
     isBarcodeScanning |-> FALSE,
     barcodeData |-> NoBarcode,
     scanningPaused |-> FALSE]

StateType ==
    [permission : {"null", "denied", "granted"},
     uri : UriValues,
     mode : {"picture", "video"},
     facing : {"back", "front"},
     recording : BOOLEAN,
     isBarcodeScanning : BOOLEAN,
     barcodeData : Barcodes \cup {NoBarcode},
     scanningPaused : BOOLEAN]

\* ------------------------------------------------------------- rendering
\* the value App returns: permission gate, then the ternary of line 205
RenderAppBarcodeFirst(s) ==
    IF s.permission = "null" THEN "none"
    ELSE IF s.permission # "granted" THEN "permission"
    ELSE IF s.barcodeData # NoBarcode THEN "barcode"
    ELSE IF Truthy(s.uri) THEN "photo"
    ELSE "camera"

RenderAppNoGate(s) ==
    IF Truthy(s.uri) THEN "photo"
    ELSE IF s.barcodeData # NoBarcode THEN "barcode"
    ELSE "camera"

RenderApp(s) ==
    IF s.permission = "null" THEN "none"
    ELSE IF s.permission # "granted" THEN "permission"
    ELSE IF Truthy(s.uri) THEN "photo"
    ELSE IF s.barcodeData # NoBarcode THEN "barcode"
    ELSE "camera"

ShutterVisibleAlways(r) == TRUE

\* data.startsWith(prefix), strings as sequences of characters
startsWith(data, prefix) ==
    /\ Len(data) >= Len(prefix)
    /\ SubSeq(data, 1, Len(prefix)) = prefix

IsbnLabel == "ISBN (EAN-13)"

\* renderBarcodeResult: the texts after "Type: " and "Data: "
renderBarcodeResult978Only(barcode) ==
    LET formattedData == barcode.data
        barcodeType == barcode.type
    IN  [type |-> IF barcodeType = "ean13"
                       /\ startsWith(formattedData, <<"9", "7", "8">>)
                  THEN IsbnLabel ELSE barcodeType,
         data |-> formattedData]

renderBarcodeResult(barcode) ==
    LET formattedData == barcode.data
        barcodeType == barcode.type
    IN  [type |-> IF barcodeType = "ean13"
                       /\ (startsWith(formattedData, <<"9", "7", "8">>)
                             \/ startsWith(formattedData, <<"9", "7", "9">>))
                  THEN IsbnLabel ELSE barcodeType,
         data |-> formattedData]

\* no barcode result is on screen
NoDisplay == [type |-> "", data |-> <<>>]

\* what the render of r shows of the barcode
Display(r) ==
    IF RenderApp(r) = "barcode" THEN renderBarcodeResult(r.barcodeData)
    ELSE NoDisplay

\* {!isBarcodeScanning && (<Pressable onPress={...}>)}
ShutterVisible(r) == ~r.isBarcodeScanning

\* onPress={mode === "picture" ? takePicture : recordVideo}
ShutterHandler(r) == IF r.mode = "picture" THEN "takePicture" ELSE "recordVideo"

\* ------------------------------------------------------------- handlers
\* Each handler maps the latest state s to the state after its updates;
\* r is the render whose closure the handler is.

toggleModeKeepsBarcode(s, r) ==
    LET m == [s EXCEPT !.mode = IF s.mode = "picture" THEN "video" ELSE "picture"]
    IN  IF r.isBarcodeScanning
        THEN [m EXCEPT !.isBarcodeScanning = FALSE]
        ELSE m

toggleMode(s, r) ==
    LET m == [s EXCEPT !.mode = IF s.mode = "picture" THEN "video" ELSE "picture"]
    IN  IF r.isBarcodeScanning
        THEN [m EXCEPT !.isBarcodeScanning = FALSE, !.barcodeData = NoBarcode]
        ELSE m

toggleFacingResetsScan(s, r) ==
    [s EXCEPT !.facing = IF s.facing = "back" THEN "front" ELSE "back",
              !.barcodeData = NoBarcode,
              !.scanningPaused = FALSE]

toggleFacing(s, r) ==
    [s EXCEPT !.facing = IF s.facing = "back" THEN "front" ELSE "back"]

toggleBarcodeScanningKeepsPause(s, r) ==
    [s EXCEPT !.isBarcodeScanning = ~s.isBarcodeScanning,
              !.barcodeData = NoBarcode]

toggleBarcodeScanning(s, r) ==
    [s EXCEPT !.isBarcodeScanning = ~s.isBarcodeScanning,
              !.barcodeData = NoBarcode,
              !.scanningPaused = FALSE]

handleBarCodeScanned(s, r, scanningResult) ==
    IF r.scanningPaused
    THEN s
    ELSE [s EXCEPT !.barcodeData = scanningResult, !.scanningPaused = TRUE]

scanAgainKeepsPause(s, r) ==
    [s EXCEPT !.barcodeData = NoBarcode]

scanAgainKeepsBarcode(s, r) ==
    [s EXCEPT !.scanningPaused = FALSE]

scanAgain(s, r) ==
    [s EXCEPT !.barcodeData = NoBarcode, !.scanningPaused = FALSE]

onBarcodeScannedAttachedWhileOff(r) == ~r.scanningPaused

\* onBarcodeScanned={isBarcodeScanning && !scanningPaused ? handleBarCodeScanned : undefined}
onBarcodeScannedAttached(r) == r.isBarcodeScanning /\ ~r.scanningPaused

onBarcodeScanned(s, r, scr, scanningResult) ==
    IF scr = "camera" /\ onBarcodeScannedAttached(r)
    THEN handleBarCodeScanned(s, r, scanningResult)
    ELSE s

\* recordVideo: the state update of either branch
recordVideoNoFlipOnStop(s, r) ==
    IF r.recording THEN s ELSE [s EXCEPT !.recording = TRUE]

recordVideo(s, r) ==
    IF r.recording
    THEN [s EXCEPT !.recording = FALSE]
    ELSE [s EXCEPT !.recording = TRUE]

\* recordVideo: the call it makes on the camera
recordVideoRequest(r) == IF r.recording THEN "stop" ELSE "start"

\* recordVideo after the await: console.log({ video }), no state update
recordVideoResolvedStops(s, video) == [s EXCEPT !.recording = FALSE]

recordVideoResolved(s, video) == s

\* takePicture after the await: setUri(photo?.uri)
takePictureSkipsOnBarcode(s, photoUri) ==
    IF s.barcodeData # NoBarcode THEN s ELSE [s EXCEPT !.uri = photoUri]

takePictureResolved(s, photoUri) == [s EXCEPT !.uri = photoUri]

takeAnotherKeepsUri(s, r) == s

\* <Button onPress={() => setUri(null)} title="Take another picture" />
takeAnother(s, r) == [s EXCEPT !.uri = "null"]

\* --------------------------------------------------------------- actions
Init ==
    /\ state = InitialState
    /\ rendered = InitialState
    /\ screen = RenderApp(InitialState)
    /\ display = Display(InitialState)
    /\ effectPending = TRUE
    /\ permPending = 0
    /\ photoPending = 0
    /\ recordPending = 0
    /\ lastVideoReq = "none"
    /\ lastOp = "mount"
    /\ pre = InitialState
    /\ lastScan = NoBarcode
    /\ lastPhoto = "null"
    /\ afterDismiss = "none"

\* React commits the render of r
Commit(r) ==
    /\ rendered' = r
    /\ screen' = RenderApp(r)
    /\ display' = Display(r)

\* a press handler ran.  Its updates are rendered before the next event:
\* s2 is the latest state with them, r2 what was rendered with them.  The
\* render takes the updates queued by earlier steps too (s2), or leaves
\* them to a later render (r2).
Press(op, s2, r2) ==
    /\ state' = s2
    /\ Commit(s2) \/ Commit(r2)
    /\ lastOp' = op
    /\ pre' = state
    /\ lastScan' = NoBarcode
    /\ lastPhoto' = "null"

\* an update made outside a press handler: rendered at once, or queued
Queue(op, s2, scan, photo) ==
    /\ state' = s2
    /\ Commit(s2) \/ UNCHANGED <<rendered, screen, display>>
    /\ lastOp' = op
    /\ pre' = state
    /\ lastScan' = scan
    /\ lastPhoto' = photo

\* the handler of a native event ran: s2 is the latest state with its
\* updates, r2 what was rendered with them.  The updates are rendered at
\* once, with the updates queued before them (s2) or without (r2), or are
\* queued for a later render.
NativeEvent(op, s2, r2, scan, photo) ==
    /\ state' = s2
    /\ \/ Commit(s2)
       \/ Commit(r2)
       \/ UNCHANGED <<rendered, screen, display>>
    /\ lastOp' = op
    /\ pre' = state
    /\ lastScan' = scan
    /\ lastPhoto' = photo

\* useEffect(() => { setIsBarcodeScanning(true); }, [])
AutoEnableScanning ==
    /\ effectPending
    /\ effectPending' = FALSE
    /\ Queue("effect", [state EXCEPT !.isBarcodeScanning = TRUE], NoBarcode, "null")
    /\ UNCHANGED <<permPending, photoPending, recordPending, lastVideoReq,
                   afterDismiss>>

\* useCameraPermissions reports the current permission
PermissionLoaded ==
    /\ ~effectPending
    /\ state.permission = "null"
    /\ \E p \in {"denied", "granted"} :
         Queue("permissionLoaded", [state EXCEPT !.permission = p], NoBarcode, "null")
    /\ UNCHANGED <<permPending, effectPending, photoPending, recordPending, lastVideoReq, afterDismiss>>

\* <Button onPress={requestPermission} title="Grant permission" />
\* the press issues the request and returns
RequestPermission ==
    /\ screen = "permission"
    /\ permPending < MaxPermPending
    /\ permPending' = permPending + 1
    /\ Press("requestPermission", state, rendered)
    /\ UNCHANGED <<effectPending, photoPending, recordPending, lastVideoReq, afterDismiss>>

\* a requestPermission call is answered: the hook stores the answer
PermissionAnswered ==
    /\ permPending > 0
    /\ permPending' = permPending - 1
    /\ \E p \in {"denied", "granted"} :
         Queue("permissionAnswered", [state EXCEPT !.permission = p],
               NoBarcode, "null")
    /\ UNCHANGED <<effectPending, photoPending, recordPending, lastVideoReq, afterDismiss>>

\* React renders the queued updates
Render ==
    /\ rendered # state
    /\ Commit(state)
    /\ lastOp' = "render"
    /\ pre' = state
    /\ lastScan' = NoBarcode
    /\ lastPhoto' = "null"
    /\ UNCHANGED <<state, permPending, effectPending, photoPending, recordPending,
                   lastVideoReq, afterDismiss>>

ToggleMode ==
    /\ screen = "camera"
    /\ Press("toggleMode", toggleMode(state, rendered), toggleMode(rendered, rendered))
    /\ afterDismiss' = "none"
    /\ UNCHANGED <<permPending, effectPending, photoPending, recordPending, lastVideoReq>>

ToggleFacing ==
    /\ screen = "camera"
    /\ Press("toggleFacing", toggleFacing(state, rendered), toggleFacing(rendered, rendered))
    /\ UNCHANGED <<permPending, effectPending, photoPending, recordPending, lastVideoReq, afterDismiss>>

ToggleBarcodeScanning ==
    /\ screen = "camera"
    /\ Press("toggleBarcodeScanning", toggleBarcodeScanning(state, rendered), toggleBarcodeScanning(rendered, rendered))
    /\ afterDismiss' = "none"
    /\ UNCHANGED <<permPending, effectPending, photoPending, recordPending, lastVideoReq>>

\* the shutter in picture mode: ref.current?.takePictureAsync() is issued
TakePicture ==
    /\ screen = "camera"
    /\ ShutterVisible(rendered)
    /\ ShutterHandler(rendered) = "takePicture"
    /\ photoPending + recordPending < MaxPending
    /\ photoPending' = photoPending + 1
    /\ Press("takePicture", state, rendered)
    /\ UNCHANGED <<permPending, effectPending, recordPending, lastVideoReq, afterDismiss>>

\* takePictureAsync resolves with a picture, or with undefined
PhotoResolved ==
    /\ photoPending > 0
    /\ photoPending' = photoPending - 1
    /\ \E u \in Uris \cup {"undefined"} :
         Queue("photoResolved", takePictureResolved(state, u), NoBarcode, u)
    /\ UNCHANGED <<permPending, effectPending, recordPending, lastVideoReq, afterDismiss>>

\* takePictureAsync rejects: the await throws, setUri is not reached
PhotoRejected ==
    /\ photoPending > 0
    /\ photoPending' = photoPending - 1
    /\ Queue("photoRejected", state, NoBarcode, "null")
    /\ UNCHANGED <<permPending, effectPending, recordPending, lastVideoReq, afterDismiss>>

\* the shutter in video mode
RecordVideo ==
    /\ screen = "camera"
    /\ ShutterVisible(rendered)
    /\ ShutterHandler(rendered) = "recordVideo"
    /\ recordVideoRequest(rendered) = "start"
         => photoPending + recordPending < MaxPending
    /\ lastVideoReq' = recordVideoRequest(rendered)
    /\ recordPending' = IF recordVideoRequest(rendered) = "start"
                        THEN recordPending + 1 ELSE recordPending
    /\ Press("recordVideo", recordVideo(state, rendered), recordVideo(rendered, rendered))
    /\ UNCHANGED <<permPending, effectPending, photoPending, afterDismiss>>

\* recordAsync resolves (recording stopped or ended): console.log only
RecordResolved ==
    /\ recordPending > 0
    /\ recordPending' = recordPending - 1
    /\ \E video \in Uris \cup {"undefined"} :
         Queue("recordResolved", recordVideoResolved(state, video),
               NoBarcode, "null")
    /\ UNCHANGED <<permPending, effectPending, photoPending, lastVideoReq, afterDismiss>>

\* recordAsync rejects: nothing after the await runs
RecordRejected ==
    /\ recordPending > 0
    /\ recordPending' = recordPending - 1
    /\ Queue("recordRejected", state, NoBarcode, "null")
    /\ UNCHANGED <<permPending, effectPending, photoPending, lastVideoReq, afterDismiss>>

\* the mounted CameraView reports a barcode: only renderCamera mounts it,
\* so an event arrives only while the camera view is the one shown.  The
\* event reaches handleBarCodeScanned when the CameraView was given the
\* handler, and is dropped otherwise.
BarcodeEvent ==
    /\ screen = "camera"
    /\ \E b \in Barcodes :
         NativeEvent("barcodeEvent",
                     onBarcodeScanned(state, rendered, screen, b),
                     onBarcodeScanned(rendered, rendered, screen, b),
                     b, "null")
    /\ afterDismiss' = IF afterDismiss = "waiting" THEN "rescanned" ELSE "none"
    /\ UNCHANGED <<permPending, effectPending, photoPending, recordPending, lastVideoReq>>

ScanAgain ==
    /\ screen = "barcode"
    /\ Press("scanAgain", scanAgain(state, rendered), scanAgain(rendered, rendered))
    /\ afterDismiss' = "waiting"
    /\ UNCHANGED <<permPending, effectPending, photoPending, recordPending, lastVideoReq>>

TakeAnother ==
    /\ screen = "photo"
    /\ Press("takeAnother", takeAnother(state, rendered), takeAnother(rendered, rendered))
    /\ UNCHANGED <<permPending, effectPending, photoPending, recordPending, lastVideoReq, afterDismiss>>

Next ==
    \/ AutoEnableScanning
    \/ PermissionLoaded
    \/ RequestPermission
    \/ PermissionAnswered
    \/ Render
    \/ ToggleMode
    \/ ToggleFacing
    \/ ToggleBarcodeScanning
    \/ TakePicture
    \/ PhotoResolved
    \/ PhotoRejected
    \/ RecordVideo
    \/ RecordResolved
    \/ RecordRejected
    \/ BarcodeEvent
    \/ ScanAgain
    \/ TakeAnother

Spec == Init /\ [][Next]_vars

\* ------------------------------------------------- the label of a barcode
\* Every payload up to MaxDataLen characters: the camera view is on screen
\* with scanning on, a barcode event was just handled, and the render that
\* shows the result is the step.
LabelChars == {"9", "7", "8", "1"}
LabelTypes == {"ean13", "ean8", "qr"}
LabelPayloads == UNION {[1..n -> LabelChars] : n \in 0..MaxDataLen}
LabelInputs == [type : LabelTypes, data : LabelPayloads]

ScanningState ==
    [InitialState EXCEPT !.permission = "granted", !.isBarcodeScanning = TRUE]

LabelInit ==
    /\ \E b \in LabelInputs :
         /\ state = handleBarCodeScanned(ScanningState, ScanningState, b)
         /\ lastScan = b
    /\ rendered = ScanningState
    /\ screen = RenderApp(ScanningState)
    /\ display = Display(ScanningState)
    /\ effectPending = FALSE
    /\ permPending = 0
    /\ photoPending = 0
    /\ recordPending = 0
    /\ lastVideoReq = "none"
    /\ lastOp = "barcodeEvent"
    /\ pre = ScanningState
    /\ lastPhoto = "null"
    /\ afterDismiss = "none"

LabelNext == Render

LabelSpec == LabelInit /\ [][LabelNext]_vars

TypeOK ==
    /\ state \in StateType
    /\ rendered \in StateType
    /\ screen \in {"none", "permission", "photo", "barcode", "camera"}
    /\ photoPending \in 0..MaxPending
    /\ recordPending \in 0..MaxPending
    /\ permPending \in 0..MaxPermPending

\* ---------------------------------------------------------------- claims
Present(b) == b # NoBarcode

\* C1: immediately after toggleMode, isBarcodeScanning is false and
\* barcodeData is absent, whether or not scanning was on before the press.
C1_ToggleModeResetsScan ==
    lastOp = "toggleMode" =>
        /\ ~state.isBarcodeScanning
        /\ ~Present(state.barcodeData)
        /\ ~rendered.isBarcodeScanning
        /\ ~Present(rendered.barcodeData)

\* toggleMode ran from a state in which scanning was already off
C1_Witness ==
    /\ lastOp = "toggleMode"
    /\ ~pre.isBarcodeScanning
    /\ pre.mode # state.mode

\* C2 (as claimed): once a barcode was accepted and scanningPaused is
\* true, a further barcode event changes nothing, and barcodeData keeps the
\* first event's value in every step other than scanAgain and
\* toggleBarcodeScanning.
C2_PausedKeepsFirstScan ==
    [][(state.scanningPaused /\ Present(state.barcodeData)) =>
          /\ lastOp' = "barcodeEvent" => state' = state
          /\ lastOp' \notin {"scanAgain", "toggleBarcodeScanning"}
                => state'.barcodeData = state.barcodeData]_vars

\* C3: after scanAgain dismissed a result, the next barcode event that
\* reaches the mounted camera while scanning is enabled is accepted:
\* barcodeData becomes the event's payload and scanningPaused becomes true.
C3_AcceptedAfterDismiss ==
    [][(afterDismiss = "waiting" /\ screen = "camera" /\ state.isBarcodeScanning
          /\ lastOp' = "barcodeEvent") =>
          /\ state'.barcodeData = lastScan'
          /\ state'.scanningPaused]_vars

\* a result was dismissed, and the next event that reached the camera
\* is the one kept
C3_Witness ==
    /\ lastOp = "barcodeEvent"
    /\ afterDismiss = "rescanned"
    /\ Present(lastScan)
    /\ state.barcodeData = lastScan
    /\ state.scanningPaused
    /\ ~Present(pre.barcodeData)

\* C4: with permission granted the view shown is the photo preview if the
\* rendered uri is present, else the barcode result if the rendered
\* barcodeData is present, else the live camera.
C4_RenderPriority ==
    rendered.permission = "granted" =>
        /\ Truthy(rendered.uri) => screen = "photo"
        /\ (~Truthy(rendered.uri) /\ Present(rendered.barcodeData))
              => screen = "barcode"
        /\ (~Truthy(rendered.uri) /\ ~Present(rendered.barcodeData))
              => screen = "camera"

\* a photo and a barcode are both present and the photo preview is shown
C4_Witness ==
    /\ rendered.permission = "granted"
    /\ Truthy(rendered.uri)
    /\ Present(rendered.barcodeData)
    /\ screen = "photo"

\* C5 (as claimed): recording is true only while the mode is video.
C5_RecordingOnlyInVideo ==
    state.recording => state.mode = "video"

\* C6 (as claimed): scanningPaused implies that barcodeData is present.
C6_PausedImpliesBarcode ==
    /\ state.scanningPaused => Present(state.barcodeData)
    /\ rendered.scanningPaused => Present(rendered.barcodeData)

\* C7 (as claimed): when the request issued by the preceding shutter press
\* is rejected, uri and recording have the values they had before that
\* press and the view the state gives is the one it gave before the press.
C7_FailedCaptureChangesNothing ==
    [][/\ (lastOp = "takePicture" /\ photoPending = 1
             /\ lastOp' = "photoRejected")
          => (state'.uri = pre.uri /\ state'.recording = pre.recording
                /\ RenderApp(state') = RenderApp(pre))
       /\ (lastOp = "recordVideo" /\ lastVideoReq = "start"
             /\ recordPending = 1 /\ lastOp' = "recordRejected")
          => (state'.uri = pre.uri /\ state'.recording = pre.recording
                /\ RenderApp(state') = RenderApp(pre))]_vars

\* C8: every recordVideo press negates recording, and the calls such presses
\* make on the camera alternate, beginning with a start.
C8_RecordingAlternates ==
    [][lastOp' = "recordVideo" =>
          /\ state'.recording = ~state.recording
          /\ rendered'.recording = ~rendered.recording
          /\ lastVideoReq' \in {"start", "stop"}
          /\ lastVideoReq' # lastVideoReq
          /\ lastVideoReq = "none" => lastVideoReq' = "start"]_vars

\* a recording was started, stopped and started again
C8_Witness ==
    /\ lastOp = "recordVideo"
    /\ lastVideoReq = "start"
    /\ state.recording
    /\ recordPending = 2

\* C9: when takePictureAsync resolves with {uri: x}, uri becomes x whatever
\* the rest of the state is.
C9_PhotoSetsUri ==
    [][(lastOp' = "photoResolved" /\ lastPhoto' \in Uris)
          => (state'.uri = lastPhoto'
                /\ \A f \in DOMAIN state \ {"uri"} : state'[f] = state[f])]_vars

\* a picture arrived while a barcode was present
C9_Witness ==
    /\ lastOp = "photoResolved"
    /\ lastPhoto \in Uris
    /\ state.uri = lastPhoto
    /\ Present(state.barcodeData)
    /\ Present(pre.barcodeData)

\* C10 (as claimed): at most one capture request is outstanding.
C10_SingleOutstandingCapture ==
    photoPending + recordPending <= 1

Others(fields) == DOMAIN InitialState \ fields

\* C11: the shutter does not exist while scanning is enabled: every
\* takePicture and recordVideo press (photo, start or stop request) is made
\* from a state with isBarcodeScanning false.
C11_NoCaptureWhileScanning ==
    [][lastOp' \in {"takePicture", "recordVideo"} =>
          /\ ~state.isBarcodeScanning
          /\ ~rendered.isBarcodeScanning]_vars

\* a capture request was issued, and scanning was off
C11_Witness ==
    /\ lastOp \in {"takePicture", "recordVideo"}
    /\ ~pre.isBarcodeScanning
    /\ photoPending + recordPending > 0

CameraPresses ==
    {"toggleMode", "toggleFacing", "toggleBarcodeScanning", "takePicture",
     "recordVideo", "scanAgain", "takeAnother"}

\* C13 (as claimed): while the rendered permission is not granted, no
\* camera control can be pressed and mode, facing, recording,
\* scanningPaused, barcodeData and uri do not change.
C13_PermissionGate ==
    [][rendered.permission # "granted" =>
          /\ \A f \in Others({"permission", "isBarcodeScanning"}) :
                state'[f] = state[f]
          /\ lastOp' \notin CameraPresses]_vars

\* C13 (amended): while the rendered permission is not granted, no camera
\* control can be pressed, no capture request is issued and no barcode
\* event is handled; mode, facing, recording, scanningPaused and
\* barcodeData do not change, and uri changes only when a photo request
\* issued while permission was granted resolves.
C13_PermissionGateAmended ==
    [][rendered.permission # "granted" =>
          /\ \A f \in Others({"permission", "isBarcodeScanning", "uri"}) :
                state'[f] = state[f]
          /\ state'.uri # state.uri => lastOp' = "photoResolved"
          /\ lastOp' \notin CameraPresses
          /\ lastOp' = "barcodeEvent" => state' = state
          /\ photoPending' <= photoPending
          /\ recordPending' <= recordPending]_vars

\* the permission message is on screen after a later answer of denied, and
\* a photo requested before it has just arrived
C13_Witness ==
    /\ rendered.permission = "denied"
    /\ screen = "permission"
    /\ lastOp = "photoResolved"
    /\ Truthy(state.uri)
    /\ ~Truthy(pre.uri)

\* C14 (as claimed): while a barcode is recorded and not dismissed, a
\* further barcode event of the burst leaves barcodeData as the first
\* event set it, also before the component re-rendered.
C14_BurstKeepsFirstScan ==
    [][(state.scanningPaused /\ Present(state.barcodeData)
          /\ lastOp' = "barcodeEvent")
          => state'.barcodeData = state.barcodeData]_vars

\* C15: a barcode event changes the state only if isBarcodeScanning is
\* true when it arrives; a barcode becomes present only by such an event.
C15_AcceptedOnlyWhileScanning ==
    [][/\ (lastOp' = "barcodeEvent" /\ ~state.isBarcodeScanning)
             => state' = state
       /\ (Present(state'.barcodeData)
             /\ state'.barcodeData # state.barcodeData)
             => (lastOp' = "barcodeEvent" /\ state.isBarcodeScanning
                   /\ rendered.isBarcodeScanning)]_vars

\* an event reached the mounted camera while scanning was off and was dropped
C15_Witness ==
    /\ lastOp = "barcodeEvent"
    /\ screen = "camera"
    /\ ~rendered.scanningPaused
    /\ ~state.isBarcodeScanning
    /\ Present(lastScan)
    /\ pre = state
    /\ ~Present(state.barcodeData)

\* C16: toggleBarcodeScanning negates isBarcodeScanning, leaves barcodeData
\* absent and scanningPaused false, and changes nothing else.
C16_ToggleScanning ==
    [][lastOp' = "toggleBarcodeScanning" =>
          /\ state'.isBarcodeScanning = ~state.isBarcodeScanning
          /\ ~Present(state'.barcodeData)
          /\ ~state'.scanningPaused
          /\ \A f \in Others({"isBarcodeScanning", "barcodeData",
                              "scanningPaused"}) : state'[f] = state[f]]_vars

\* the toggle was pressed on a paused state and cleared the pause
C16_Witness ==
    /\ lastOp = "toggleBarcodeScanning"
    /\ pre.scanningPaused
    /\ ~state.scanningPaused
    /\ state.isBarcodeScanning = ~pre.isBarcodeScanning

\* C17 (as claimed): scanAgain, pressed on the barcode result, leaves
\* barcodeData absent and scanningPaused false, the live camera is the view
\* rendered next, and isBarcodeScanning, mode, facing and recording are
\* unchanged.
C17_ScanAgain ==
    [][lastOp' = "scanAgain" =>
          /\ screen = "barcode"
          /\ ~Present(state'.barcodeData)
          /\ ~state'.scanningPaused
          /\ screen' = "camera"
          /\ \A f \in {"isBarcodeScanning", "mode", "facing", "recording"} :
                state'[f] = state[f]]_vars

\* C17 (amended): as claimed, but the live camera is certainly the view
\* rendered next only when no photo and no permission answer waits to be
\* rendered: with an arrived photo waiting it is the live camera or the
\* photo preview, with an answer of denied waiting it is the live camera
\* or the permission message.
C17_ScanAgainAmended ==
    [][lastOp' = "scanAgain" =>
          /\ screen = "barcode"
          /\ ~Present(state'.barcodeData)
          /\ ~state'.scanningPaused
          /\ \/ screen' = "camera"
             \/ screen' = "photo" /\ Truthy(state.uri) /\ ~Truthy(rendered.uri)
             \/ screen' = "permission" /\ state.permission = "denied"
                  /\ rendered.permission = "granted"
          /\ (state.uri = rendered.uri /\ state.permission = rendered.permission)
                => screen' = "camera"
          /\ \A f \in {"isBarcodeScanning", "mode", "facing", "recording"} :
                state'[f] = state[f]]_vars

\* a result was dismissed while an arrived photo was queued: the photo
\* preview is the view rendered next
C17_Witness ==
    /\ lastOp = "scanAgain"
    /\ Present(pre.barcodeData)
    /\ pre.scanningPaused
    /\ ~Present(state.barcodeData)
    /\ ~state.scanningPaused
    /\ screen = "photo"

\* C18: toggleFacing flips facing between back and front and changes no
\* other state variable.
C18_ToggleFacing ==
    [][lastOp' = "toggleFacing" =>
          /\ state.facing = "back" => state'.facing = "front"
          /\ state.facing = "front" => state'.facing = "back"
          /\ \A f \in Others({"facing"}) : state'[f] = state[f]]_vars

\* facing was flipped to front and back again, over a queued scan
C18_Witness ==
    /\ lastOp = "toggleFacing"
    /\ pre.facing = "front"
    /\ state.facing = "back"
    /\ Present(state.barcodeData)
    /\ state.scanningPaused

\* C20: the completion of recordAsync changes no state, so recording only
\* becomes false by a recordVideo press.
C20_RecordingCompletion ==
    [][/\ lastOp' = "recordResolved" => state' = state
       /\ (state.recording /\ ~state'.recording)
             => lastOp' = "recordVideo"]_vars

\* a recording ended on the device and recording is still true
C20_Witness ==
    /\ lastOp = "recordResolved"
    /\ state.recording
    /\ recordPending = 0
    /\ lastVideoReq = "start"

\* C12: the Type text of the barcode result is "ISBN (EAN-13)" exactly when
\* the type is "ean13" and the data begins with 978 or 979, and is the type
\* itself otherwise; the Data text is the data.
C12_IsbnLabel ==
    screen = "barcode" =>
        LET b == rendered.barcodeData
            isbn == /\ b.type = "ean13"
                    /\ Len(b.data) >= 3
                    /\ b.data[1] = "9"
                    /\ b.data[2] = "7"
                    /\ b.data[3] \in {"8", "9"}
        IN  /\ (display.type = IsbnLabel) <=> isbn
            /\ ~isbn => display.type = b.type
            /\ display.data = b.data

\* an ean13 code beginning with 979 is shown as ISBN, with its data
C12_Witness ==
    /\ screen = "barcode"
    /\ rendered.barcodeData.type = "ean13"
    /\ rendered.barcodeData.data = <<"9", "7", "9", "1">>
    /\ display = [type |-> IsbnLabel, data |-> <<"9", "7", "9", "1">>]

\* C19: with permission granted there is always a press the user can make,
\* and the live camera is at most two presses away: "Scan Another Barcode"
\* leads to the camera, or to the preview of a photo that arrived, from
\* which "Take another picture" leads to the camera; "Take another
\* picture" leads to the camera, or to the barcode result, from which
\* "Scan Another Barcode" leads to the camera.
C19_NoTerminalState ==
    (rendered.permission = "granted" /\ state.permission = "granted") =>
        /\ ENABLED (ToggleFacing \/ ScanAgain \/ TakeAnother)
        /\ screen = "barcode" =>
             ~ENABLED (ScanAgain
                        /\ ~(\/ screen' = "camera"
                             \/ screen' = "photo"
                                  /\ ~Present(state'.barcodeData)))
        /\ screen = "photo" =>
             ~ENABLED (TakeAnother
                        /\ ~(\/ screen' = "camera"
                             \/ screen' = "barcode" /\ ~Truthy(state'.uri)))
        /\ (screen = "photo" /\ ~Present(state.barcodeData)) =>
             ~ENABLED (TakeAnother /\ screen' # "camera")
        /\ (screen = "barcode" /\ ~Truthy(state.uri)) =>
             ~ENABLED (ScanAgain /\ screen' # "camera")

\* the photo preview covers a barcode result: two dismissals are needed
C19_Witness ==
    /\ rendered.permission = "granted"
    /\ state.permission = "granted"
    /\ screen = "photo"
    /\ Present(rendered.barcodeData)
    /\ Truthy(state.uri)
    /\ photoPending = 0
    /\ recordPending = 0
====
